---- MODULE Spec2Model ----
(***************************************************************************)
(* Upload pipeline of langflow-with-nextjs-sidecar:                        *)
(*   pages/api/upload-files.ts    handleFileUpload, processFiles,          *)
(*                                updateProgress                           *)
(*   pages/api/upload-progress.ts handleProgress                           *)
(*   lib/progressStore.ts         ProgressStore (a Map behind set/get/     *)
(*                                delete)                                  *)
(* Node runs every handler and every promise continuation to completion,   *)
(* so one action is one macrotask together with the microtasks it drains:  *)
(* the submit handler with the first task starts, the return of one        *)
(* downstream call with the onFinish update, the start of the next queued  *)
(* task and (after the last call) the completion handler, the firing of a  *)
(* retention timer, and one progress query.                                *)
(***************************************************************************)
EXTENDS Integers, Sequences, FiniteSets, TLC

\* ------------------------------------------------------------------ bounds
MaxFiles == 2
MaxWorkers == 2
MaxEnvLen == 2
MaxLabels == 2
MaxInFlight == 2

\* ------------------------------------------------------- input alphabets
\* two submit requests, numbered in their order of arrival: the least number with
\* which an uploadId or a collection name is used a second time
Requests == 1..2
UploadIds == {"u1", "u2"}
CollectionNames == {"c1", "c2"}
RelativePaths == {"a", "b"}
Methods == {"POST", "GET"}
\* a form field that is absent (undefined) or empty is falsy in `!field`
Missing == ""

RECURSIVE SeqsUpTo(_, _)
SeqsUpTo(S, n) ==
  IF n = 0 THEN {<<>>}
  ELSE LET shorter == SeqsUpTo(S, n - 1)
       IN shorter \cup {Append(s, x) : s \in {t \in shorter : Len(t) = n - 1}, x \in S}

FileLists == SeqsUpTo(RelativePaths, MaxFiles)

\* Identifiers are interchangeable names, so those of the first request are called
\* u1 and c1, and its first file a: every run is a renaming of one of these.
UploadIdsOf(b) == IF b = 1 THEN {"u1"} ELSE UploadIds
CollectionNamesOf(b) == IF b = 1 THEN {"c1"} ELSE CollectionNames
FileListsOf(b) == IF b = 1 THEN {f \in FileLists : f = <<>> \/ f[1] = "a"} ELSE FileLists

\* ------------------------------------------------ LANGFLOW_WORKERS parsing
Digits == <<"0", "1", "2", "3", "4", "5", "6", "7", "8", "9">>
DigitChars == {Digits[i] : i \in 1..10}
DigitValue(c) == (CHOOSE i \in 1..10 : Digits[i] = c) - 1

\* process.env.LANGFLOW_WORKERS: unset, or a string (a sequence of characters)
EnvUnset == [isSet |-> FALSE, chars |-> <<>>]
EnvString(s) == [isSet |-> TRUE, chars |-> s]
\* the settings the server is run under: unset (one worker) or 2..MaxWorkers workers
EnvValues == {EnvUnset} \cup {EnvString(<<Digits[k + 1]>>) : k \in 2..MaxWorkers}

NaN == [nan |-> TRUE, value |-> 0]
Num(n) == [nan |-> FALSE, value |-> n]

\* StrWhiteSpaceChar: the white space and line terminator characters parseInt skips at
\* the head of its argument. Those of them that a string of a module can hold are
\* listed; the others (U+1680, U+2000 to U+200A, U+2028, U+2029, U+202F, U+205F,
\* U+3000, U+FEFF) are skipped by the code in the same way.
Tab == "\t"
LineFeed == "\n"
CarriageReturn == "\r"
FormFeed == "\f"
VerticalTab == ""
NoBreakSpace == " "
StrWhiteSpaceChars ==
  {" ", Tab, LineFeed, CarriageReturn, FormFeed, VerticalTab, NoBreakSpace}

RECURSIVE SkipSpace(_)
SkipSpace(s) ==
  IF s # <<>> /\ Head(s) \in StrWhiteSpaceChars THEN SkipSpace(Tail(s)) ELSE s

RECURSIVE DigitPrefix(_, _)
\* value of the longest prefix of decimal digits of s, acc the digits read so far
DigitPrefix(s, acc) ==
  IF s # <<>> /\ Head(s) \in DigitChars
  THEN DigitPrefix(Tail(s), acc * 10 + DigitValue(Head(s)))
  ELSE acc

\* parseInt(s, 10)
parseInt(s) ==
  LET t == SkipSpace(s)
      neg == t # <<>> /\ Head(t) = "-"
      u == IF t # <<>> /\ Head(t) \in {"-", "+"} THEN Tail(t) ELSE t
  IN IF u = <<>> \/ Head(u) \notin DigitChars THEN NaN
     ELSE Num(IF neg THEN 0 - DigitPrefix(u, 0) ELSE DigitPrefix(u, 0))

defaultConcurrency == 1

parsedConcurrency(e) ==
  IF e.isSet /\ e.chars # <<>> THEN parseInt(e.chars) ELSE Num(defaultConcurrency)

concurrencyLimitRaw(e) == parsedConcurrency(e).value

concurrencyLimit(e) ==
  LET p == parsedConcurrency(e)
  IN IF p.nan \/ p.value <= 0 THEN defaultConcurrency ELSE p.value

\* ---------------------------------------------------------- ProgressStore
StoreSet(store, uploadId, data) ==
  [k \in DOMAIN store \cup {uploadId} |-> IF k = uploadId THEN data ELSE store[k]]

StoreHas(store, uploadId) == uploadId \in DOMAIN store

StoreDeleteNoop(store, uploadId) == store

StoreClear(store, uploadId) == <<>>

StoreDelete(store, uploadId) == [k \in DOMAIN store \ {uploadId} |-> store[k]]

InitialProgress(n) ==
  [totalFiles |-> n, processedFiles |-> 0, processingFiles |-> <<>>, isComplete |-> FALSE]

\* -------------------------------------------------------- updateProgress
InSeq(x, s) == \E i \in 1..Len(s) : s[i] = x

NoUpdate ==
  [processedFilesIncrement |-> 0, processingFiles |-> <<>>, processingFilesRemove |-> <<>>]
onStartUpdate(relativePath) == [NoUpdate EXCEPT !.processingFiles = <<relativePath>>]
onFinishUpdate(relativePath) ==
  [NoUpdate EXCEPT !.processedFilesIncrement = 1, !.processingFilesRemove = <<relativePath>>]

ApplyIncrementOverwrite(p, updates) ==
  [p EXCEPT !.processedFiles = updates.processedFilesIncrement]

ApplyIncrement(p, updates) ==
  [p EXCEPT !.processedFiles = @ + updates.processedFilesIncrement]

ApplyPush(p, updates) ==
  [p EXCEPT !.processingFiles = @ \o updates.processingFiles]

ApplyRemove(p, updates) ==
  LET keep(file) == ~InSeq(file, updates.processingFilesRemove)
  IN [p EXCEPT !.processingFiles = SelectSeq(@, keep)]

ClampProcessedNone(p) == p

\* if (updated.processedFiles > updated.totalFiles) updated.processedFiles = totalFiles
ClampProcessed(p) ==
  IF p.processedFiles > p.totalFiles THEN [p EXCEPT !.processedFiles = p.totalFiles] ELSE p

MarkIfAllProcessedNever(p) == p

MarkIfAllProcessedRecompute(p) ==
  [p EXCEPT !.isComplete = (p.processedFiles = p.totalFiles /\ p.processingFiles = <<>>)]

\* if (updated.processedFiles === updated.totalFiles) updated.isComplete = true
MarkIfAllProcessed(p) ==
  IF p.processedFiles = p.totalFiles THEN [p EXCEPT !.isComplete = TRUE] ELSE p

updateProgressUpsert(store, uploadId, updates) ==
  LET progress == IF StoreHas(store, uploadId) THEN store[uploadId] ELSE InitialProgress(0)
  IN StoreSet(store, uploadId,
       MarkIfAllProcessed(ClampProcessed(
         ApplyRemove(ApplyPush(ApplyIncrement(progress, updates), updates), updates))))

updateProgress(store, uploadId, updates) ==
  IF ~StoreHas(store, uploadId) THEN store
  ELSE StoreSet(store, uploadId,
         MarkIfAllProcessed(ClampProcessed(
           ApplyRemove(ApplyPush(ApplyIncrement(store[uploadId], updates), updates),
                       updates))))

\* ------------------------------------------------- files of a collection
MetadataFile == ".metadata.json"

\* handleFiles: a relative path without '/' is copied to its basename in the
\* collection directory, and RelativePaths holds no '/', so the name is the path
Destination(relativePath) == relativePath

\* the names written by copying the first n files, each copy replacing a file of
\* the same name
CopiedFiles(files, n) == {Destination(files[i]) : i \in 1..n}

handleFilesFirstOnly(files) == CopiedFiles(files, IF files = <<>> THEN 0 ELSE 1)

\* handleFiles(validFiles, collectionPath): files.forEach copies every file
handleFiles(files) == CopiedFiles(files, Len(files))

WriteFiles(d, collectionName, names) ==
  [c \in DOMAIN d \cup {collectionName} |-> IF c = collectionName THEN names ELSE d[c]]

\* ----------------------------------------------------- labels form field
\* the field is absent, is no JSON text, or is the JSON text of a list of
\* {key, value} objects
AbsentLabels == [kind |-> "absent", items |-> <<>>]
InvalidLabels == [kind |-> "invalid", items |-> <<>>]
LabelKeys == {"k1", "k2"}
LabelValues == {"v"}
SubmittedLabel(key, value) == [key |-> key, value |-> value]
LabelLists ==
  SeqsUpTo({SubmittedLabel(k, v) : k \in LabelKeys, v \in LabelValues}, MaxLabels)
LabelFields ==
  {AbsentLabels, InvalidLabels} \cup {[kind |-> "list", items |-> l] : l \in LabelLists}

\* an object with the one property key: value
Object(key, value) == [k \in {key} |-> value]

\* extractLabels: [] for an absent field and for one JSON.parse (or the map) throws
\* on, else every {key, value} of the parsed list becomes {[key]: value}
extractLabels(field) ==
  IF field.kind = "list"
  THEN [i \in 1..Len(field.items) |-> Object(field.items[i].key, field.items[i].value)]
  ELSE <<>>

\* const metadataList = [{ conversation_name: collectionName }, ...labels]
metadataList(collectionName, parsedLabels) ==
  <<Object("conversation_name", collectionName)>> \o parsedLabels

\* ------------------------------------------------------------------ state
VARIABLES
  env,       \* process.env.LANGFLOW_WORKERS
  ledger,    \* progressStore.store: Map<uploadId, ProgressData>
  dirs,      \* collection directories that exist under the upload directory
  disk,      \* per collection directory: the names of the files written into it
  labels,    \* per submit request: the labels form field it carries
  client,    \* the upload page that sent the first submit request: its polling loop
  cleaned,   \* per submit request: the uploadId its catch block deleted the record of
  stored,    \* per submit request: whether it has run progressStore.set for its uploadId
  request,   \* per submit request: the method and the form fields it arrived with
  phase,     \* per submit request: where its handler and its processFiles promise are
  batch,     \* per request that passed the checks: uploadId, collectionName, files
  response,  \* per submit request: the response sent (code 0: none sent yet)
  task,      \* per accepted request: state of the p-limit task of each file
  calls,     \* per accepted request: downstream calls issued for each file
  timer,     \* per accepted request: the retention timer set by the completion handler
  resp       \* last response of the progress endpoint

vars == <<env, client, cleaned, stored, ledger, dirs, disk, labels, request, phase, batch, response, task, calls, timer, resp>>

NoBatch == [uploadId |-> Missing, collectionName |-> Missing, files |-> <<>>]
Received(method, uploadId, collectionName) ==
  [method |-> method, uploadId |-> uploadId, collectionName |-> collectionName]
NoRequest == Received("", Missing, Missing)
Reply(code, message, uploadId) == [code |-> code, message |-> message, uploadId |-> uploadId]
NoReply == Reply(0, "", Missing)
NoResponse == [status |-> 0, uploadId |-> Missing, body |-> InitialProgress(0)]

\* the state of the upload page (upload-files.tsx): how far handleSubmit has come
\* (not called, awaiting the upload response, polling interval set, interval cleared,
\* upload failed), isSubmitting, isModalOpen, totalTime, the uploadId it polls with,
\* the queries and responses under way in their order of issue, and progressData
ClientState(state, isSubmitting, isModalOpen, totalTime, uploadId, inflight, progressData) ==
  [state |-> state, isSubmitting |-> isSubmitting, isModalOpen |-> isModalOpen,
   totalTime |-> totalTime, uploadId |-> uploadId,
   inflight |-> inflight, progressData |-> progressData]
\* the page as it is mounted: nothing submitted
NoClient == ClientState("none", FALSE, FALSE, "", Missing, <<>>, InitialProgress(0))

\* the server has just started: nothing stored, nothing on disk, no request handled
Fresh ==
  /\ ledger = <<>>
  /\ cleaned = [b \in Requests |-> Missing]
  /\ stored = [b \in Requests |-> FALSE]
  /\ dirs = {}
  /\ disk = <<>>
  /\ request = [b \in Requests |-> NoRequest]
  /\ phase = [b \in Requests |-> "new"]
  /\ batch = [b \in Requests |-> NoBatch]
  /\ response = [b \in Requests |-> NoReply]
  /\ task = [b \in Requests |-> <<>>]
  /\ calls = [b \in Requests |-> <<>>]
  /\ timer = [b \in Requests |-> "none"]
  /\ resp = NoResponse

Init ==
  /\ env \in EnvValues
  /\ labels = [b \in Requests |-> AbsentLabels]
  /\ client = NoClient
  /\ Fresh

\* ------------------------------------------------- processFiles (p-limit)
Running(tasks) == {i \in DOMAIN tasks : tasks[i] = "running"}
Queued(tasks) == {i \in DOMAIN tasks : tasks[i] = "queued"}
Attempted(tasks) == {i \in DOMAIN tasks : tasks[i] \in {"ok", "failed"}}
Min(S) == CHOOSE x \in S : \A y \in S : x <= y

SlotFreeOffByOne(tasks, limit) == Cardinality(Running(tasks)) <= limit

\* limit = pLimit(concurrencyLimit): a queued task is started only into a free slot
SlotFree(tasks, limit) == Cardinality(Running(tasks)) < limit

\* the body of one task up to its await: onStart, then the downstream call is issued
StartTask(s, uploadId, files, i) ==
  [store |-> updateProgress(s.store, uploadId, onStartUpdate(files[i])),
   tasks |-> [s.tasks EXCEPT ![i] = "running"],
   calls |-> [s.calls EXCEPT ![i] = @ + 1]]

RECURSIVE RunQueue(_, _, _, _)
\* p-limit starts queued tasks in submission order while a slot is free
RunQueue(s, uploadId, files, limit) ==
  IF SlotFree(s.tasks, limit) /\ Queued(s.tasks) # {}
  THEN RunQueue(StartTask(s, uploadId, files, Min(Queued(s.tasks))), uploadId, files, limit)
  ELSE s

FinishTaskNoFinally(s, uploadId, files, i, outcome) ==
  [store |-> IF outcome = "failed" THEN s.store
             ELSE updateProgress(s.store, uploadId, onFinishUpdate(files[i])),
   tasks |-> [s.tasks EXCEPT ![i] = outcome],
   calls |-> s.calls]

FinishTaskRetry(s, uploadId, files, i, outcome) ==
  [store |-> updateProgress(s.store, uploadId, onFinishUpdate(files[i])),
   tasks |-> [s.tasks EXCEPT ![i] = IF outcome = "failed" /\ s.calls[i] < 2
                                     THEN "queued" ELSE outcome],
   calls |-> s.calls]

\* the finally block of one task: onFinish, whatever the outcome of the call
FinishTask(s, uploadId, files, i, outcome) ==
  [store |-> updateProgress(s.store, uploadId, onFinishUpdate(files[i])),
   tasks |-> [s.tasks EXCEPT ![i] = outcome],
   calls |-> s.calls]

\* Promise.all(...) resolves once every task has resolved
AllSettled(tasks) == Attempted(tasks) = DOMAIN tasks

\* processFiles(...).then(...): mark complete, when the record is still there
thenHandler(store, uploadId) ==
  IF StoreHas(store, uploadId)
  THEN StoreSet(store, uploadId, [store[uploadId] EXCEPT !.isComplete = TRUE])
  ELSE store

\* ... and schedule the deletion, under the same condition
TimerAfterThen(store, uploadId) ==
  IF StoreHas(store, uploadId) THEN "scheduled" ELSE "none"

\* the detached phase as far as it runs within the current macrotask
Detached(s, uploadId, files, limit) ==
  LET r == RunQueue(s, uploadId, files, limit)
      settled == AllSettled(r.tasks)
  IN [store |-> IF settled THEN thenHandler(r.store, uploadId) ELSE r.store,
      tasks |-> r.tasks,
      calls |-> r.calls,
      phase |-> IF settled THEN "done" ELSE "running",
      timer |-> IF settled THEN TimerAfterThen(r.store, uploadId) ELSE "none"]

\* ------------------------------------------------------- handleFileUpload
ValidateNoConflict(method, uploadId, collectionName, existing) ==
  IF method # "POST" THEN Reply(405, "Method " \o method \o " Not Allowed", Missing)
  ELSE IF uploadId = Missing THEN Reply(400, "Upload ID is required.", Missing)
  ELSE IF collectionName = Missing THEN Reply(400, "Collection name is required.", Missing)
  ELSE NoReply

ValidateCollectionFirst(method, uploadId, collectionName, existing) ==
  IF method # "POST" THEN Reply(405, "Method " \o method \o " Not Allowed", Missing)
  ELSE IF collectionName = Missing THEN Reply(400, "Collection name is required.", Missing)
  ELSE IF uploadId = Missing THEN Reply(400, "Upload ID is required.", Missing)
  ELSE IF collectionName \in existing THEN Reply(409, "Collection already exists.", Missing)
  ELSE NoReply

\* the checks of the handler in their order; 0 when the request passes them
Validate(method, uploadId, collectionName, existing) ==
  IF method # "POST" THEN Reply(405, "Method " \o method \o " Not Allowed", Missing)
  ELSE IF uploadId = Missing THEN Reply(400, "Upload ID is required.", Missing)
  ELSE IF collectionName = Missing THEN Reply(400, "Collection name is required.", Missing)
  ELSE IF collectionName \in existing THEN Reply(409, "Collection already exists.", Missing)
  ELSE NoReply

validFilesDistinct(files) == Cardinality({files[i] : i \in 1..Len(files)})

\* validFiles.length: every uploaded file counts, whatever its relative path
validFilesLength(files) == Len(files)

\* request b reaches the handler: it has not been handled and every earlier one has
Arrives(b) == phase[b] = "new" /\ \A a \in Requests : a < b => phase[a] # "new"

SubmitRejectAfterInit(b, method, uploadId, collectionName) ==
  /\ Arrives(b)
  /\ Validate(method, uploadId, collectionName, dirs) # NoReply
  /\ response' = [response EXCEPT ![b] = Validate(method, uploadId, collectionName, dirs)]
  /\ phase' = [phase EXCEPT ![b] = "rejected"]
  /\ request' = [request EXCEPT ![b] = Received(method, uploadId, collectionName)]
  /\ ledger' = IF uploadId = Missing THEN ledger
               ELSE StoreSet(ledger, uploadId, InitialProgress(0))
  /\ UNCHANGED <<env, client, cleaned, stored, dirs, disk, labels, batch, task, calls, timer, resp>>

\* a request stopped by one of the checks
SubmitReject(b, method, uploadId, collectionName) ==
  /\ Arrives(b)
  /\ Validate(method, uploadId, collectionName, dirs) # NoReply
  /\ response' = [response EXCEPT ![b] = Validate(method, uploadId, collectionName, dirs)]
  /\ phase' = [phase EXCEPT ![b] = "rejected"]
  /\ request' = [request EXCEPT ![b] = Received(method, uploadId, collectionName)]
  /\ UNCHANGED <<env, client, cleaned, stored, ledger, dirs, disk, labels, batch, task, calls, timer, resp>>

SubmitAcceptAwaiting(b, uploadId, collectionName, files) ==
  /\ Arrives(b)
  /\ Validate("POST", uploadId, collectionName, dirs) = NoReply
  /\ LET n == Len(files)
         s0 == [store |-> StoreSet(ledger, uploadId, InitialProgress(validFilesLength(files))),
                tasks |-> [i \in 1..n |-> "queued"],
                calls |-> [i \in 1..n |-> 0]]
     IN \E d \in {Detached(s0, uploadId, files, concurrencyLimit(env))} :
        /\ ledger' = d.store
        /\ task' = [task EXCEPT ![b] = d.tasks]
        /\ calls' = [calls EXCEPT ![b] = d.calls]
        /\ phase' = [phase EXCEPT ![b] = d.phase]
        /\ timer' = [timer EXCEPT ![b] = d.timer]
        /\ response' = [response EXCEPT ![b] =
                          IF d.phase = "done"
                          THEN Reply(200, "Files uploaded and processing started.", uploadId)
                          ELSE NoReply]
  /\ dirs' = dirs \cup {collectionName}
  /\ disk' = WriteFiles(disk, collectionName, handleFiles(files) \cup {MetadataFile})
  /\ batch' = [batch EXCEPT ![b] =
                 [uploadId |-> uploadId, collectionName |-> collectionName, files |-> files]]
  /\ request' = [request EXCEPT ![b] = Received("POST", uploadId, collectionName)]
  /\ stored' = [stored EXCEPT ![b] = TRUE]
  /\ UNCHANGED <<env, client, cleaned, labels, resp>>

\* a request that passes the checks and whose files and metadata are written
SubmitAccept(b, uploadId, collectionName, files) ==
  /\ Arrives(b)
  /\ Validate("POST", uploadId, collectionName, dirs) = NoReply
  /\ LET n == Len(files)
         s0 == [store |-> StoreSet(ledger, uploadId, InitialProgress(validFilesLength(files))),
                tasks |-> [i \in 1..n |-> "queued"],
                calls |-> [i \in 1..n |-> 0]]
     IN \E d \in {Detached(s0, uploadId, files, concurrencyLimit(env))} :
        /\ ledger' = d.store
        /\ task' = [task EXCEPT ![b] = d.tasks]
        /\ calls' = [calls EXCEPT ![b] = d.calls]
        /\ phase' = [phase EXCEPT ![b] = d.phase]
        /\ timer' = [timer EXCEPT ![b] = d.timer]
  /\ dirs' = dirs \cup {collectionName}
  /\ disk' = WriteFiles(disk, collectionName, handleFiles(files) \cup {MetadataFile})
  /\ batch' = [batch EXCEPT ![b] =
                 [uploadId |-> uploadId, collectionName |-> collectionName, files |-> files]]
  /\ response' = [response EXCEPT ![b] =
                    Reply(200, "Files uploaded and processing started.", uploadId)]
  /\ request' = [request EXCEPT ![b] = Received("POST", uploadId, collectionName)]
  /\ stored' = [stored EXCEPT ![b] = TRUE]
  /\ UNCHANGED <<env, client, cleaned, labels, resp>>

\* the catch block of the handler: it parses the request a second time to find the
\* uploadId and awaits the callback, which brings the fields or an error, in the same
\* turn of the event loop or a later one, or never comes on the consumed request
\* ("hang": no callback yet); only with the fields is the record deleted, and the 500
\* response, with the message of the error thrown, is sent once the callback came
CleanupOutcomes == {"fields", "error", "hang"}
WriteFailed == "write failed"
ParseFailed == "parse error 1"

catchStore(store, uploadId, reparse) ==
  IF reparse = "fields" /\ uploadId # Missing THEN StoreDelete(store, uploadId) ELSE store
catchCleaned(uploadId, reparse) == IF reparse = "fields" THEN uploadId ELSE Missing
catchPhase(reparse) == IF reparse = "hang" THEN "hung" ELSE "failed"
catchResponse(message, reparse) ==
  IF reparse = "hang" THEN NoReply ELSE Reply(500, message, Missing)

\* the first parseForm of a POST request rejects: no field is read, nothing is created
\* or stored, and the catch block runs; uploadId is the field the request carries
SubmitParseFail(b, uploadId, reparse) ==
  /\ Arrives(b)
  /\ ledger' = catchStore(ledger, uploadId, reparse)
  /\ cleaned' = [cleaned EXCEPT ![b] = catchCleaned(uploadId, reparse)]
  /\ phase' = [phase EXCEPT ![b] = catchPhase(reparse)]
  /\ response' = [response EXCEPT ![b] = catchResponse(ParseFailed, reparse)]
  /\ request' = [request EXCEPT ![b] = Received("POST", Missing, Missing)]
  /\ UNCHANGED <<env, client, stored, dirs, disk, labels, batch, task, calls, timer, resp>>

\* a request that passes the checks and then fails to persist: mkdirSync of the
\* collection directory throws (copied = MkdirThrew: no directory, no record), or the
\* record is stored and the copy of a file or the writing of the metadata throws
\* after the first `copied` files were copied (all of them when the metadata fails);
\* writeFileSync throws when it cannot create .metadata.json (copied = Len(files)) or
\* when it has created the file and cannot write it (copied = Len(files) + 1: the
\* file stays in the directory)
MkdirThrew == -1
PersistedBeforeThrow(files, copied) ==
  IF copied > Len(files) THEN handleFiles(files) \cup {MetadataFile}
  ELSE CopiedFiles(files, copied)
SubmitPersistFail(b, uploadId, collectionName, files, reparse, copied) ==
  /\ Arrives(b)
  /\ Validate("POST", uploadId, collectionName, dirs) = NoReply
  /\ dirs' = IF copied = MkdirThrew THEN dirs ELSE dirs \cup {collectionName}
  /\ disk' = IF copied = MkdirThrew THEN disk
             ELSE WriteFiles(disk, collectionName, PersistedBeforeThrow(files, copied))
  /\ LET initialised ==
           IF copied = MkdirThrew THEN ledger
           ELSE StoreSet(ledger, uploadId, InitialProgress(validFilesLength(files)))
     IN ledger' = catchStore(initialised, uploadId, reparse)
  /\ cleaned' = [cleaned EXCEPT ![b] = catchCleaned(uploadId, reparse)]
  /\ phase' = [phase EXCEPT ![b] = catchPhase(reparse)]
  /\ response' = [response EXCEPT ![b] = catchResponse(WriteFailed, reparse)]
  /\ batch' = [batch EXCEPT ![b] =
                 [uploadId |-> uploadId, collectionName |-> collectionName, files |-> files]]
  /\ request' = [request EXCEPT ![b] = Received("POST", uploadId, collectionName)]
  /\ stored' = [stored EXCEPT ![b] = copied # MkdirThrew]
  /\ UNCHANGED <<env, client, labels, task, calls, timer, resp>>

\* the callback of the second parseForm comes in a later turn of the event loop, with
\* the fields or with an error: the rest of the catch block runs; the uploadId of the
\* fields is the one the request carries
CleanupReturn(b, uploadId, reparse) ==
  /\ phase[b] = "hung"
  /\ reparse \in CleanupOutcomes \ {"hang"}
  /\ batch[b] # NoBatch => uploadId = batch[b].uploadId
  /\ ledger' = catchStore(ledger, uploadId, reparse)
  /\ cleaned' = [cleaned EXCEPT ![b] = catchCleaned(uploadId, reparse)]
  /\ phase' = [phase EXCEPT ![b] = catchPhase(reparse)]
  /\ response' = [response EXCEPT ![b] =
                    catchResponse(IF batch[b] = NoBatch THEN ParseFailed ELSE WriteFailed,
                                  reparse)]
  /\ UNCHANGED <<env, client, stored, dirs, disk, labels, request, batch, task, calls, timer, resp>>

\* ------------------------------------------- return of one downstream call
Outcomes == {"ok", "failed"}
CallReturn(b, i, outcome) ==
  /\ phase[b] = "running"
  /\ i \in Running(task[b])
  /\ LET uploadId == batch[b].uploadId
         files == batch[b].files
         s0 == [store |-> ledger, tasks |-> task[b], calls |-> calls[b]]
     IN \E d \in {Detached(FinishTask(s0, uploadId, files, i, outcome), uploadId, files,
                            concurrencyLimit(env))} :
        /\ ledger' = d.store
        /\ task' = [task EXCEPT ![b] = d.tasks]
        /\ calls' = [calls EXCEPT ![b] = d.calls]
        /\ phase' = [phase EXCEPT ![b] = d.phase]
        /\ timer' = [timer EXCEPT ![b] = d.timer]
  /\ UNCHANGED <<env, client, cleaned, stored, dirs, disk, labels, request, batch, response, resp>>

\* ------------------------------------ retention timer (5 minutes) expires
RetentionMs == 300000
TimerFire(b) ==
  /\ timer[b] = "scheduled"
  /\ ledger' = StoreDelete(ledger, batch[b].uploadId)
  /\ timer' = [timer EXCEPT ![b] = "fired"]
  /\ UNCHANGED <<env, client, cleaned, stored, dirs, disk, labels, request, phase, batch, response, task, calls, resp>>

\* ------------------------ failure of the detached phase outside the try block
catchHandlerKeep(store, uploadId) == store

\* processFiles(...).then(...).catch(...): remove the record
catchHandler(store, uploadId) == StoreDelete(store, uploadId)

\* The source has no statement outside the try block that throws on the inputs
\* modelled here; the failure is a fault of the runtime. It is raised in the body of a
\* task outside its try block, which rejects Promise.all while the other tasks go on:
\* before the first statement of the task that changes anything, when p-limit starts
\* it, or when its call has returned; or it is raised in the completion handler. A
\* task whose call has returned throws before the update of its finally block has
\* changed the record (in progressStore.get: "threw"), or after that update (in the
\* console.log that ends the finally block, or in the console.error of the catch block,
\* after which the finally block runs: "threw late"). A task that threw has ended
\* (status "threw") and its slot is free again.
ThrowEndings == {"threw", "threw late"}
Endings == Outcomes \cup ThrowEndings
Threw(tasks) == {i \in DOMAIN tasks : tasks[i] = "threw"}

\* the body of a task from the return of its call on
EndTask(s, uploadId, files, i, ending) ==
  IF ending = "threw" THEN [s EXCEPT !.tasks[i] = "threw"]
  ELSE IF ending = "threw late" THEN FinishTask(s, uploadId, files, i, "threw")
  ELSE FinishTask(s, uploadId, files, i, ending)

RECURSIVE RunQueueFaulty(_, _, _, _, _)
\* p-limit starts queued tasks in submission order while a slot is free; a task of
\* throwers throws at its start, before onStart and the downstream call
RunQueueFaulty(s, uploadId, files, limit, throwers) ==
  IF SlotFree(s.tasks, limit) /\ Queued(s.tasks) # {}
  THEN LET i == Min(Queued(s.tasks))
       IN RunQueueFaulty(IF i \in throwers THEN [s EXCEPT !.tasks[i] = "threw"]
                         ELSE StartTask(s, uploadId, files, i),
                         uploadId, files, limit, throwers)
  ELSE s

\* the detached phase as far as it runs within the current macrotask on such a
\* runtime: the first rejection runs the .catch, a later one has no handler left
DetachedFaulty(s, rejected, uploadId, files, limit, throwers, thenThrows) ==
  LET r == RunQueueFaulty(s, uploadId, files, limit, throwers)
      settled == AllSettled(r.tasks)
      rejects == Threw(r.tasks) # {} \/ (settled /\ thenThrows)
  IN [store |-> IF rejected THEN r.store
                ELSE IF rejects THEN catchHandler(r.store, uploadId)
                ELSE IF settled THEN thenHandler(r.store, uploadId) ELSE r.store,
      tasks |-> r.tasks,
      calls |-> r.calls,
      phase |-> IF rejected \/ rejects THEN "errored"
                ELSE IF settled THEN "done" ELSE "running",
      timer |-> IF ~rejected /\ ~rejects /\ settled
                THEN TimerAfterThen(r.store, uploadId) ELSE "none"]

\* the faults named by throwers and thenThrows all happen in the step that ends in d
FaultsHappen(threwBefore, d, ended, throwers, thenThrows) ==
  /\ Threw(d.tasks) = threwBefore \cup throwers \cup ended
  /\ thenThrows => (Threw(d.tasks) = {} /\ AllSettled(d.tasks))

\* a request that passes the checks and whose files and metadata are written, on
\* such a runtime: the response is sent, and in the same turn of the event loop a task
\* throws at its start or, without files, the completion handler throws
SubmitAcceptFails(b, uploadId, collectionName, files, throwers, thenThrows) ==
  /\ Arrives(b)
  /\ Validate("POST", uploadId, collectionName, dirs) = NoReply
  /\ LET n == Len(files)
         s0 == [store |-> StoreSet(ledger, uploadId, InitialProgress(validFilesLength(files))),
                tasks |-> [i \in 1..n |-> "queued"],
                calls |-> [i \in 1..n |-> 0]]
     IN \E d \in {DetachedFaulty(s0, FALSE, uploadId, files, concurrencyLimit(env),
                                  throwers, thenThrows)} :
        /\ d.phase = "errored"
        /\ FaultsHappen({}, d, {}, throwers, thenThrows)
        /\ ledger' = d.store
        /\ task' = [task EXCEPT ![b] = d.tasks]
        /\ calls' = [calls EXCEPT ![b] = d.calls]
        /\ phase' = [phase EXCEPT ![b] = d.phase]
        /\ timer' = [timer EXCEPT ![b] = d.timer]
  /\ dirs' = dirs \cup {collectionName}
  /\ disk' = WriteFiles(disk, collectionName, handleFiles(files) \cup {MetadataFile})
  /\ batch' = [batch EXCEPT ![b] =
                 [uploadId |-> uploadId, collectionName |-> collectionName, files |-> files]]
  /\ response' = [response EXCEPT ![b] =
                    Reply(200, "Files uploaded and processing started.", uploadId)]
  /\ request' = [request EXCEPT ![b] = Received("POST", uploadId, collectionName)]
  /\ stored' = [stored EXCEPT ![b] = TRUE]
  /\ UNCHANGED <<env, client, cleaned, labels, resp>>

\* a call of a running batch returns and the detached phase fails in that turn: the
\* task throws before or after the update of its finally block, a task that p-limit
\* starts throws at its start,
\* or every task has resolved and the completion handler throws
DetachedFails(b, i, ending, throwers, thenThrows) ==
  /\ phase[b] = "running"
  /\ i \in Running(task[b])
  /\ LET uploadId == batch[b].uploadId
         files == batch[b].files
         s0 == [store |-> ledger, tasks |-> task[b], calls |-> calls[b]]
     IN \E d \in {DetachedFaulty(EndTask(s0, uploadId, files, i, ending), FALSE, uploadId,
                                  files, concurrencyLimit(env), throwers, thenThrows)} :
        /\ d.phase = "errored"
        /\ FaultsHappen(Threw(task[b]), d, IF ending \in ThrowEndings THEN {i} ELSE {},
                        throwers, thenThrows)
        /\ ledger' = d.store
        /\ task' = [task EXCEPT ![b] = d.tasks]
        /\ calls' = [calls EXCEPT ![b] = d.calls]
        /\ phase' = [phase EXCEPT ![b] = d.phase]
  /\ UNCHANGED <<env, client, cleaned, stored, dirs, disk, labels, request, batch, response, timer, resp>>

\* a call of a batch whose processFiles promise has rejected returns: the finally block
\* runs, or the task throws, and p-limit starts the next task, which may throw as
\* well; no completion handler and no .catch is left to run
SiblingReturn(b, i, ending, throwers) ==
  /\ phase[b] = "errored"
  /\ i \in Running(task[b])
  /\ LET uploadId == batch[b].uploadId
         files == batch[b].files
         s0 == [store |-> ledger, tasks |-> task[b], calls |-> calls[b]]
     IN \E d \in {DetachedFaulty(EndTask(s0, uploadId, files, i, ending), TRUE, uploadId,
                                  files, concurrencyLimit(env), throwers, FALSE)} :
        /\ FaultsHappen(Threw(task[b]), d, IF ending \in ThrowEndings THEN {i} ELSE {},
                        throwers, FALSE)
        /\ ledger' = d.store
        /\ task' = [task EXCEPT ![b] = d.tasks]
        /\ calls' = [calls EXCEPT ![b] = d.calls]
  /\ UNCHANGED <<env, client, cleaned, stored, dirs, disk, labels, request, phase, batch, response, timer, resp>>

\* ---------------------------------------------------------- handleProgress
\* req.query.uploadId: a string, an array of strings (repeated parameter) or undefined
QueryValues ==
  {[kind |-> "string", val |-> u] : u \in UploadIds \cup {Missing}}
    \cup {[kind |-> "array", val |-> "u1"], [kind |-> "undefined", val |-> Missing]}

handleProgressAnyMethod(method, q, store) ==
  IF q.kind # "string" \/ q.val = Missing
    THEN [status |-> 400, uploadId |-> q.val, body |-> InitialProgress(0)]
  ELSE IF ~StoreHas(store, q.val)
    THEN [status |-> 404, uploadId |-> q.val, body |-> InitialProgress(0)]
  ELSE [status |-> 200, uploadId |-> q.val, body |-> store[q.val]]

handleProgressHidesComplete(method, q, store) ==
  IF method # "GET" THEN [status |-> 405, uploadId |-> q.val, body |-> InitialProgress(0)]
  ELSE IF q.kind # "string" \/ q.val = Missing
    THEN [status |-> 400, uploadId |-> q.val, body |-> InitialProgress(0)]
  ELSE IF ~StoreHas(store, q.val) \/ store[q.val].isComplete
    THEN [status |-> 404, uploadId |-> q.val, body |-> InitialProgress(0)]
  ELSE [status |-> 200, uploadId |-> q.val, body |-> store[q.val]]

handleProgress(method, q, store) ==
  IF method # "GET" THEN [status |-> 405, uploadId |-> q.val, body |-> InitialProgress(0)]
  ELSE IF q.kind # "string" \/ q.val = Missing
    THEN [status |-> 400, uploadId |-> q.val, body |-> InitialProgress(0)]
  ELSE IF ~StoreHas(store, q.val)
    THEN [status |-> 404, uploadId |-> q.val, body |-> InitialProgress(0)]
  ELSE [status |-> 200, uploadId |-> q.val, body |-> store[q.val]]

PollConsuming(method, q) ==
  /\ resp' = handleProgress(method, q, ledger)
  /\ ledger' = StoreDelete(ledger, q.val)
  /\ UNCHANGED <<env, client, cleaned, stored, dirs, disk, labels, request, phase, batch, response, task, calls, timer>>

Poll(method, q) ==
  /\ resp' = handleProgress(method, q, ledger)
  /\ UNCHANGED <<env, client, cleaned, stored, ledger, dirs, disk, labels, request, phase, batch, response, task, calls, timer>>

\* ---------------------------------------------------------- specification
Next ==
  \/ \E b \in {a \in Requests : Arrives(a)} : \E m \in Methods, u \in UploadIdsOf(b) \cup {Missing},
        c \in CollectionNamesOf(b) \cup {Missing} : SubmitReject(b, m, u, c)
  \/ \E b \in {a \in Requests : Arrives(a)} : \E u \in UploadIdsOf(b), c \in CollectionNamesOf(b),
        f \in FileListsOf(b) : SubmitAccept(b, u, c, f)
  \/ \E b \in {a \in Requests : Arrives(a)} : \E u \in UploadIdsOf(b), c \in CollectionNamesOf(b),
        f \in FileListsOf(b), r \in CleanupOutcomes :
          \E k \in MkdirThrew..Len(f) + 1 : SubmitPersistFail(b, u, c, f, r, k)
  \/ \E b \in {a \in Requests : Arrives(a)} : \E u \in UploadIdsOf(b) \cup {Missing},
        r \in CleanupOutcomes : SubmitParseFail(b, u, r)
  \/ \E b \in Requests : \E u \in UploadIds \cup {Missing}, r \in CleanupOutcomes :
        CleanupReturn(b, u, r)
  \/ \E b \in Requests : \E i \in Running(task[b]), o \in Outcomes : CallReturn(b, i, o)
  \/ \E b \in Requests : TimerFire(b)

Spec == Init /\ [][Next]_vars

\* A timer that was set expires: Node runs the callback once the delay has passed.
\* Requests need not arrive, and whether a downstream call returns is up to the
\* downstream service.
AnyTimerFire == \E b \in Requests : TimerFire(b)
Fairness == WF_vars(AnyTimerFire)

FairSpec == Spec /\ Fairness

\* the handling of the first submit request alone
FirstRequestNext ==
  \/ \E b \in {Min(Requests)} : \E m \in Methods, u \in UploadIdsOf(b) \cup {Missing},
        c \in CollectionNamesOf(b) \cup {Missing} : SubmitReject(b, m, u, c)
  \/ \E b \in {Min(Requests)} : \E u \in UploadIdsOf(b), c \in CollectionNamesOf(b),
        f \in FileListsOf(b) : SubmitAccept(b, u, c, f)
  \/ \E b \in {Min(Requests)} : \E u \in UploadIdsOf(b), c \in CollectionNamesOf(b),
        f \in FileListsOf(b), r \in CleanupOutcomes :
          \E k \in MkdirThrew..Len(f) + 1 : SubmitPersistFail(b, u, c, f, r, k)
  \/ \E b \in {Min(Requests)} : \E u \in UploadIdsOf(b) \cup {Missing},
        r \in CleanupOutcomes : SubmitParseFail(b, u, r)
  \/ \E b \in {Min(Requests)} : \E u \in UploadIdsOf(b) \cup {Missing},
        r \in CleanupOutcomes : CleanupReturn(b, u, r)
  \/ \E b \in {Min(Requests)} : \E i \in Running(task[b]), o \in Outcomes : CallReturn(b, i, o)
  \/ \E b \in {Min(Requests)} : TimerFire(b)

\* the first submit request on a runtime that can fail the detached phase of its
\* batch, with the progress endpoint queried at any moment
FaultNext ==
  \/ FirstRequestNext
  \/ \E b \in {Min(Requests)} : \E u \in UploadIdsOf(b), c \in CollectionNamesOf(b),
        f \in FileListsOf(b) : \E t \in SUBSET (1..Len(f)), h \in BOOLEAN :
          SubmitAcceptFails(b, u, c, f, t, h)
  \/ \E b \in Requests : \E i \in Running(task[b]), e \in Endings,
        t \in SUBSET Queued(task[b]), h \in BOOLEAN : DetachedFails(b, i, e, t, h)
  \/ \E b \in Requests : \E i \in Running(task[b]), e \in Endings,
        t \in SUBSET Queued(task[b]) : SiblingReturn(b, i, e, t)
  \/ \E m \in Methods, q \in QueryValues : Poll(m, q)

FaultSpec == Init /\ [][FaultNext]_vars

\* batches that share neither uploadId nor collection: the k-th request carries the
\* k-th uploadId and the k-th collection name
OwnUploadId(b) == IF b = Min(Requests) THEN "u1" ELSE "u2"
OwnCollection(b) == IF b = Min(Requests) THEN "c1" ELSE "c2"

\* the files of a batch go to its own collection and are listed in its own record, so
\* in each batch the first file is called a
OwnFileLists == FileListsOf(Min(Requests))

\* such batches side by side, on a runtime that can fail the detached phase of a batch
IsolationNext ==
  \/ \E b \in {a \in Requests : Arrives(a)} : \E f \in OwnFileLists :
        SubmitAccept(b, OwnUploadId(b), OwnCollection(b), f)
  \/ \E b \in {a \in Requests : Arrives(a)} : \E f \in OwnFileLists, r \in CleanupOutcomes :
        \E k \in MkdirThrew..Len(f) + 1 :
          SubmitPersistFail(b, OwnUploadId(b), OwnCollection(b), f, r, k)
  \/ \E b \in {a \in Requests : Arrives(a)} : \E r \in CleanupOutcomes :
        SubmitParseFail(b, OwnUploadId(b), r)
  \/ \E b \in Requests : \E r \in CleanupOutcomes : CleanupReturn(b, OwnUploadId(b), r)
  \/ \E b \in Requests : \E i \in Running(task[b]), o \in Outcomes : CallReturn(b, i, o)
  \/ \E b \in Requests : TimerFire(b)
  \/ \E b \in {a \in Requests : Arrives(a)} : \E f \in OwnFileLists :
        \E t \in SUBSET (1..Len(f)), h \in BOOLEAN :
          SubmitAcceptFails(b, OwnUploadId(b), OwnCollection(b), f, t, h)
  \/ \E b \in Requests : \E i \in Running(task[b]), e \in Endings,
        t \in SUBSET Queued(task[b]), h \in BOOLEAN : DetachedFails(b, i, e, t, h)
  \/ \E b \in Requests : \E i \in Running(task[b]), e \in Endings,
        t \in SUBSET Queued(task[b]) : SiblingReturn(b, i, e, t)

\* the server runs one call at a time (LANGFLOW_WORKERS unset) or two at a time
IsolationEnvValues == {EnvUnset, EnvString(<<"2">>)}

IsolationInit ==
  /\ env \in IsolationEnvValues
  /\ labels = [b \in Requests |-> AbsentLabels]
  /\ client = NoClient
  /\ Fresh

IsolationSpec == IsolationInit /\ [][IsolationNext]_vars

\* the first submit request under any setting of LANGFLOW_WORKERS of up to MaxEnvLen
\* characters: digits, a sign, a blank, a tab, and a character that is none of these
EnvChars == {"0", "1", "2", "-", "+", " ", Tab, "x"}
ParseEnvValues == {EnvUnset} \cup {EnvString(s) : s \in SeqsUpTo(EnvChars, MaxEnvLen)}

ParseInit ==
  /\ env \in ParseEnvValues
  /\ labels = [b \in Requests |-> AbsentLabels]
  /\ client = NoClient
  /\ Fresh

ParseSpec == ParseInit /\ [][FirstRequestNext]_vars

\* the first submit request with any labels field
MetaInit ==
  /\ env \in EnvValues
  /\ \E l \in LabelFields :
       labels = [b \in Requests |-> IF b = Min(Requests) THEN l ELSE AbsentLabels]
  /\ client = NoClient
  /\ Fresh

MetaSpec == MetaInit /\ [][FirstRequestNext]_vars

\* tweaks['Server File Loader'].metadata of every payload of batch b: the one list
\* processFiles builds from its arguments before it creates the tasks
payloadMetadata(b) == metadataList(batch[b].collectionName, extractLabels(labels[b]))

\* the progress endpoint, queried at any moment of the handling of the first submit
\* request
PollNext ==
  \/ FirstRequestNext
  \/ \E m \in Methods, q \in QueryValues : Poll(m, q)

PollSpec == Init /\ [][PollNext]_vars

\* every downstream call returns: again and again no call is in flight
NoCallInFlight == \A b \in Requests : Running(task[b]) = {}
EveryCallReturns == []<>NoCallInFlight

\* A progress query reads the ledger and changes nothing, so what a query answers in
\* a state is handleProgress applied to the ledger of that state.
Query(uploadId) == [kind |-> "string", val |-> uploadId]
Answer(store, uploadId) == handleProgress("GET", Query(uploadId), store)
Found(store, uploadId) == Answer(store, uploadId).status = 200
NotFound(store, uploadId) == Answer(store, uploadId).status = 404

\* the requests that became a batch, and those whose uploadId no other request carries
\* (processFiles was started for them, whether or not its promise was rejected later;
\* a request carries the uploadId of its fields, which a request whose first parse
\* failed shows only when its catch block deletes with it)
Accepted(b) == phase[b] \in {"running", "done", "errored"}
SoleUser(b) ==
  \A a \in Requests \ {b} :
    batch[a].uploadId # batch[b].uploadId /\ cleaned[a] # batch[b].uploadId
\* request b initialises the record of uploadId u in this step: it passed the checks
\* and its mkdirSync created the collection directory, so progressStore.set was reached
Initialises(b, u) ==
  /\ phase[b] = "new" /\ phase'[b] # "new" /\ batch'[b].uploadId = u
  /\ batch'[b].collectionName \in dirs' \ dirs

\* ------------------------------------- the upload page (upload-files.tsx)
\* a progress query that was sent and not yet handled, and one that failed without a
\* response (axios rejects with an error that has no response)
PendingQuery(uploadId) == [status |-> 0, uploadId |-> uploadId, body |-> InitialProgress(0)]
NetworkError(uploadId) == [status |-> -1, uploadId |-> uploadId, body |-> InitialProgress(0)]

RemoveAt(s, k) == SubSeq(s, 1, k - 1) \o SubSeq(s, k + 1, Len(s))

\* clearInterval(pollingInterval); setIsSubmitting(false)
StopPolling(c) ==
  [c EXCEPT !.state = IF @ = "polling" THEN "stopped" ELSE @, !.isSubmitting = FALSE]

\* setTotalTime: the time the batch took, or 'Completed' after a 404
Elapsed == "elapsed"
Completed == "Completed"
SetTotalTime(c, t) == [c EXCEPT !.totalTime = t]

onPollResultKeepsOn404(c, answer) ==
  IF answer.status = 200
  THEN LET shown == [c EXCEPT !.progressData = answer.body]
       IN IF answer.body.isComplete THEN SetTotalTime(StopPolling(shown), Elapsed) ELSE shown
  ELSE IF answer.status = 404 THEN c
  ELSE StopPolling(c)

\* the interval callback after its await: a 2xx response is shown and stops the polling
\* when it says isComplete; a 404 and any other error stop the polling
onPollResult(c, answer) ==
  IF answer.status = 200
  THEN LET shown == [c EXCEPT !.progressData = answer.body]
       IN IF answer.body.isComplete THEN SetTotalTime(StopPolling(shown), Elapsed) ELSE shown
  ELSE IF answer.status = 404 THEN SetTotalTime(StopPolling(c), Completed)
  ELSE StopPolling(c)

\* the catch block of handleSubmit: the page leaves the submitting state and closes
\* the dialog; progressData stays as it was set before the request was sent
onUploadError(c) ==
  [c EXCEPT !.state = "failed", !.isSubmitting = FALSE, !.isModalOpen = FALSE]

\* the labels of the form, which the page sends as the labels field of its request:
\* useState([]) when the page is mounted
PageLabels(items) == [kind |-> "list", items |-> items]
\* what the inputs of a label hold: nothing yet, or a key and a value that were typed
PageLabelKeys == LabelKeys \cup {""}
PageLabelValues == LabelValues \cup {""}

\* the form can be edited until it is submitted as request b
FormOpen(b) == client.state = "none" /\ phase[b] = "new" /\ labels[b].kind = "list"

\* addLabel: a label with an empty key and an empty value is added at the end
ClientAddLabel(b) ==
  /\ FormOpen(b)
  /\ Len(labels[b].items) < MaxLabels
  /\ labels' = [labels EXCEPT ![b] = PageLabels(Append(@.items, SubmittedLabel("", "")))]
  /\ UNCHANGED <<env, client, cleaned, stored, ledger, dirs, disk, request, phase, batch, response,
                 task, calls, timer, resp>>

\* handleLabelChange: the label at index becomes {key, value}
ClientLabelChange(b, index, key, value) ==
  /\ FormOpen(b)
  /\ index \in 1..Len(labels[b].items)
  /\ labels' = [labels EXCEPT ![b] =
                  PageLabels([@.items EXCEPT ![index] = SubmittedLabel(key, value)])]
  /\ UNCHANGED <<env, client, cleaned, stored, ledger, dirs, disk, request, phase, batch, response,
                 task, calls, timer, resp>>

\* removeLabel: the label at index is taken out
ClientRemoveLabel(b, index) ==
  /\ FormOpen(b)
  /\ index \in 1..Len(labels[b].items)
  /\ labels' = [labels EXCEPT ![b] = PageLabels(RemoveAt(@.items, index))]
  /\ UNCHANGED <<env, client, cleaned, stored, ledger, dirs, disk, request, phase, batch, response,
                 task, calls, timer, resp>>

\* handleSubmit up to its await: without a file selected it alerts and returns; with n
\* files selected the page shows the progress of n files, opens the dialog, enters the
\* submitting state and sends submit request b with the labels of the form
ClientSubmit(b, n) ==
  /\ client.state = "none"
  /\ phase[b] = "new"
  /\ n > 0
  /\ client' = ClientState("submitting", TRUE, TRUE, "", Missing, <<>>, InitialProgress(n))
  /\ UNCHANGED <<env, cleaned, stored, ledger, dirs, disk, labels, request, phase, batch, response, task,
                 calls, timer, resp>>

\* the page receives the response to its submit request b: on success it starts the
\* interval with the uploadId of the response; on an error it leaves the submitting
\* state and never polls
ClientUploadAnswered(b) ==
  /\ client.state = "submitting"
  /\ response[b] # NoReply
  /\ client' = IF response[b].code = 200
               THEN [client EXCEPT !.state = "polling", !.uploadId = response[b].uploadId]
               ELSE onUploadError(client)
  /\ UNCHANGED <<env, cleaned, stored, ledger, dirs, disk, labels, request, phase, batch, response, task,
                 calls, timer, resp>>

\* the submit request fails without a response reaching the page (axios rejects),
\* whether or not the server has handled or will handle the request
ClientUploadLost ==
  /\ client.state = "submitting"
  /\ client' = onUploadError(client)
  /\ UNCHANGED <<env, cleaned, stored, ledger, dirs, disk, labels, request, phase, batch, response, task,
                 calls, timer, resp>>

\* the OK button of the dialog, shown once totalTime is set: the dialog closes and
\* resetForm clears the form, totalTime and progressData
ClientResetForm ==
  /\ client.isModalOpen /\ client.totalTime # ""
  /\ client' = [client EXCEPT !.isModalOpen = FALSE, !.isSubmitting = FALSE,
                              !.totalTime = "", !.progressData = InitialProgress(0)]
  /\ UNCHANGED <<env, cleaned, stored, ledger, dirs, disk, labels, request, phase, batch, response, task,
                 calls, timer, resp>>

\* the interval fires: a progress query is sent, whether or not earlier ones were
\* answered
ClientTick ==
  /\ client.state = "polling"
  /\ Len(client.inflight) < MaxInFlight
  /\ client' = IF client.uploadId = Missing THEN StopPolling(client)
               ELSE [client EXCEPT !.inflight = Append(@, PendingQuery(client.uploadId))]
  /\ UNCHANGED <<env, cleaned, stored, ledger, dirs, disk, labels, request, phase, batch, response, task,
                 calls, timer, resp>>

\* the progress endpoint handles the k-th query under way
ServerPoll(k) ==
  /\ k \in 1..Len(client.inflight)
  /\ client.inflight[k].status = 0
  /\ client' = [client EXCEPT !.inflight[k] =
                  handleProgress("GET", Query(client.inflight[k].uploadId), ledger)]
  /\ UNCHANGED <<env, cleaned, stored, ledger, dirs, disk, labels, request, phase, batch, response, task,
                 calls, timer, resp>>

\* the k-th query under way fails without a response
PollFails(k) ==
  /\ k \in 1..Len(client.inflight)
  /\ client.inflight[k].status = 0
  /\ client' = [client EXCEPT !.inflight[k] = NetworkError(client.inflight[k].uploadId)]
  /\ UNCHANGED <<env, cleaned, stored, ledger, dirs, disk, labels, request, phase, batch, response, task,
                 calls, timer, resp>>

\* the outcome of the k-th query under way reaches the page, in any order
ClientReceive(k) ==
  /\ k \in 1..Len(client.inflight)
  /\ client.inflight[k].status # 0
  /\ client' = onPollResult([client EXCEPT !.inflight = RemoveAt(@, k)], client.inflight[k])
  /\ UNCHANGED <<env, cleaned, stored, ledger, dirs, disk, labels, request, phase, batch, response, task,
                 calls, timer, resp>>

\* the request the server handles is the one the page sent: a POST with an uploadId,
\* a collectionName and the files the page shows the count of
SentByPage(b, files) ==
  /\ client.state \in {"submitting", "failed"}
  /\ Len(files) = client.progressData.totalFiles

\* the first submit request, sent by the page to a server just started with the
\* labels the form holds, and the polling of the page
PollingNext ==
  \/ \E b \in {Min(Requests)} : \E n \in 1..MaxFiles : ClientSubmit(b, n)
  \/ \E b \in {Min(Requests)} : \E u \in UploadIdsOf(b), c \in CollectionNamesOf(b),
        f \in FileListsOf(b) : SentByPage(b, f) /\ SubmitAccept(b, u, c, f)
  \/ \E b \in {Min(Requests)} : \E u \in UploadIdsOf(b), c \in CollectionNamesOf(b),
        f \in FileListsOf(b), r \in CleanupOutcomes :
          \E k \in MkdirThrew..Len(f) + 1 :
            SentByPage(b, f) /\ SubmitPersistFail(b, u, c, f, r, k)
  \/ \E b \in {Min(Requests)} : \E u \in UploadIdsOf(b), r \in CleanupOutcomes :
        client.state \in {"submitting", "failed"} /\ SubmitParseFail(b, u, r)
  \/ \E b \in {Min(Requests)} : \E u \in UploadIdsOf(b), r \in CleanupOutcomes :
        CleanupReturn(b, u, r)
  \/ \E b \in {Min(Requests)} : \E i \in Running(task[b]), o \in Outcomes : CallReturn(b, i, o)
  \/ \E b \in {Min(Requests)} : TimerFire(b)
  \/ \E b \in {Min(Requests)} : ClientUploadAnswered(b)
  \/ ClientUploadLost
  \/ ClientResetForm
  \/ ClientTick
  \/ \E k \in 1..MaxInFlight : ServerPoll(k)
  \/ \E k \in 1..MaxInFlight : PollFails(k)
  \/ \E k \in 1..MaxInFlight : ClientReceive(k)

\* the page with its form: labels are added, changed and removed before the submit
ClientNext ==
  \/ PollingNext
  \/ \E b \in {Min(Requests)} : ClientAddLabel(b)
  \/ \E b \in {Min(Requests)} : \E k \in 1..MaxLabels, key \in PageLabelKeys,
        value \in PageLabelValues : ClientLabelChange(b, k, key, value)
  \/ \E b \in {Min(Requests)} : \E k \in 1..MaxLabels : ClientRemoveLabel(b, k)

\* the page is mounted with no label in its form, which it sends as the first submit
\* request; the server runs under its default setting, LANGFLOW_WORKERS unset
ClientInit ==
  /\ env = EnvUnset
  /\ labels = [b \in Requests |-> IF b = Min(Requests) THEN PageLabels(<<>>)
                                    ELSE AbsentLabels]
  /\ client = NoClient
  /\ Fresh

ClientSpec == ClientInit /\ [][ClientNext]_vars

\* the page submitted with the labels it was mounted with
PollingSpec == ClientInit /\ [][PollingNext]_vars

\* the interval fires every second while it is set, the server handles every query it
\* gets, and every outcome reaches the page
AnyServerPoll == \E k \in 1..MaxInFlight : ServerPoll(k)
AnyClientReceive == \E k \in 1..MaxInFlight : ClientReceive(k)
ClientFairness ==
  WF_vars(ClientTick) /\ WF_vars(AnyServerPoll) /\ WF_vars(AnyClientReceive)

ClientFairSpec == ClientSpec /\ ClientFairness

PollingFairSpec == PollingSpec /\ ClientFairness

\* ------------------------------------------------------------------ claims

\* C1: for an accepted batch whose uploadId no other request carries, at most
\* concurrencyLimit downstream calls are in flight and processingFiles holds at most
\* concurrencyLimit entries; a task waiting for a slot has run no onStart and has
\* issued no call (every task that has begun is in flight or has finished).
C1_ConcurrencyBound ==
  \A b \in Requests :
    Accepted(b) =>
      LET limit == concurrencyLimit(env)
          u == batch[b].uploadId
      IN /\ Cardinality(Running(task[b])) <= limit
         /\ \A i \in Queued(task[b]) : calls[b][i] = 0
         /\ Queued(task[b]) # {} => Cardinality(Running(task[b])) = limit
         /\ (SoleUser(b) /\ StoreHas(ledger, u)) =>
              /\ Len(ledger[u].processingFiles) <= limit
              /\ Queued(task[b]) # {} =>
                   ledger[u].processedFiles + Len(ledger[u].processingFiles)
                     < ledger[u].totalFiles

\* a task that had to wait for a slot is in flight after an earlier task finished,
\* and the limit is reached again
C1_Witness ==
  \E b \in Requests :
    /\ Accepted(b) /\ SoleUser(b) /\ StoreHas(ledger, batch[b].uploadId)
    /\ Attempted(task[b]) # {}
    /\ Cardinality(Running(task[b])) = concurrencyLimit(env)
    /\ Len(ledger[batch[b].uploadId].processingFiles) = concurrencyLimit(env)

\* C2: every stored record has 0 <= processedFiles <= totalFiles.
C2_ProcessedWithinTotal ==
  \A u \in DOMAIN ledger :
    0 <= ledger[u].processedFiles /\ ledger[u].processedFiles <= ledger[u].totalFiles

\* more calls have ended for an uploadId than its record counts files, and the
\* record stands at processedFiles = totalFiles
C2_Witness ==
  \E u \in DOMAIN ledger :
    /\ ledger[u].totalFiles > 0
    /\ ledger[u].processedFiles = ledger[u].totalFiles
    /\ \E a, b \in Requests :
         /\ a # b /\ batch[a].uploadId = u /\ batch[b].uploadId = u
         /\ Cardinality(Attempted(task[a])) + Cardinality(Attempted(task[b]))
              > ledger[u].totalFiles
         /\ Cardinality(Attempted(task[b])) = Len(batch[b].files)
         /\ Len(batch[b].files) = ledger[u].totalFiles

\* C3: successive progress queries for one uploadId never report a smaller
\* processedFiles: a query after any step answers at least what a query before it did.
C3_PollsNonDecreasing ==
  [][\A u \in UploadIds :
       (Found(ledger, u) /\ Found(ledger', u)) =>
         Answer(ledger', u).body.processedFiles >= Answer(ledger, u).body.processedFiles]_vars

\* C4: when every downstream call returns, the record of every accepted batch
\* eventually has isComplete = true: a batch that is running while its record is not
\* complete leads to a state in which its uploadId has a complete record.
CompleteFor(b) ==
  StoreHas(ledger, batch[b].uploadId) /\ ledger[batch[b].uploadId].isComplete

C4_EventuallyComplete ==
  EveryCallReturns =>
    \A b \in Requests : (phase[b] = "running" /\ ~CompleteFor(b)) ~> CompleteFor(b)

\* C5: a stored record with isComplete = true has processedFiles = totalFiles and no
\* file in processingFiles.
C5_CompleteMeansAllProcessed ==
  \A u \in DOMAIN ledger :
    ledger[u].isComplete =>
      ledger[u].processedFiles = ledger[u].totalFiles /\ ledger[u].processingFiles = <<>>

\* C6 as stated: while an uploadId stays in the ledger, no step takes its record from
\* isComplete = true to isComplete = false.
C6_CompleteIsPermanent ==
  [][\A u \in UploadIds :
       (StoreHas(ledger, u) /\ ledger[u].isComplete /\ StoreHas(ledger', u)) =>
         ledger'[u].isComplete]_vars

\* C6 as amended: while an uploadId stays in the ledger, only a submit request that
\* carries it and passes the checks, which stores a fresh record, takes its record
\* from isComplete = true to isComplete = false.
C6_CompleteUntilResubmitted ==
  [][\A u \in UploadIds :
       (StoreHas(ledger, u) /\ ledger[u].isComplete /\ StoreHas(ledger', u)) =>
         (ledger'[u].isComplete \/ \E b \in Requests : Initialises(b, u))]_vars

\* the record of a finished batch was updated by tasks of another batch and is still
\* complete
C6_Witness ==
  \E a, b \in Requests :
    /\ a # b /\ batch[a].uploadId = batch[b].uploadId
    /\ phase[a] = "done" /\ timer[a] = "scheduled"
    /\ phase[b] = "running" /\ Attempted(task[b]) # {}
    /\ StoreHas(ledger, batch[a].uploadId) /\ ledger[batch[a].uploadId].isComplete

Occurrences(x, seq) == Cardinality({k \in 1..Len(seq) : seq[k] = x})

\* C7: when the downstream call of a file fails, its onFinish update runs all the
\* same: the step removes the file from processingFiles (it is listed afterwards only
\* for a task the step starts) and increments processedFiles (up to totalFiles), the
\* tasks in flight stay in flight and those finished stay finished, the batch keeps
\* running or is done; and a done batch with a failed file, whose uploadId no other
\* request carries, has processedFiles = totalFiles, isComplete = true and no file
\* in processingFiles for as long as its record is stored.
C7_FailedStep ==
  \A b \in Requests : \A i \in DOMAIN task[b] :
    (task[b][i] = "running" /\ task'[b][i] = "failed") =>
      LET u == batch[b].uploadId
          path == batch[b].files[i]
          started == {j \in DOMAIN task[b] : task[b][j] = "queued" /\ task'[b][j] = "running"}
      IN /\ \A j \in DOMAIN task[b] \ {i} :
              /\ task[b][j] = "running" => task'[b][j] = "running"
              /\ task[b][j] \in {"ok", "failed"} => task'[b][j] = task[b][j]
         /\ Accepted(b) /\ phase'[b] \in {phase[b], "done"}
         /\ StoreHas(ledger, u) =>
              /\ StoreHas(ledger', u)
              /\ Occurrences(path, ledger'[u].processingFiles)
                   = Cardinality({j \in started : batch[b].files[j] = path})
              /\ ledger[u].processedFiles < ledger[u].totalFiles =>
                   ledger'[u].processedFiles = ledger[u].processedFiles + 1

C7_FailedBatchCompletes ==
  \A b \in Requests :
    (/\ phase[b] = "done" /\ SoleUser(b)
     /\ \E i \in DOMAIN task[b] : task[b][i] = "failed"
     /\ StoreHas(ledger, batch[b].uploadId)) =>
      LET r == ledger[batch[b].uploadId]
      IN r.processedFiles = r.totalFiles /\ r.isComplete /\ r.processingFiles = <<>>

C7_FailureIsolated == [][C7_FailedStep]_vars /\ []C7_FailedBatchCompletes

\* a batch with one failed and one successful call is done and its record complete
C7_Witness ==
  \E b \in Requests :
    /\ phase[b] = "done" /\ SoleUser(b) /\ StoreHas(ledger, batch[b].uploadId)
    /\ \E i, j \in DOMAIN task[b] : task[b][i] = "failed" /\ task[b][j] = "ok"
    /\ ledger[batch[b].uploadId].isComplete
    /\ ledger[batch[b].uploadId].processedFiles = Len(batch[b].files)

\* C8: every file of an accepted batch gets one downstream call: none while its task
\* waits, one from the moment its task has begun, also after the call failed, and
\* every file has had its call when the batch is done.
C8_OneCallPerFile ==
  \A b \in Requests :
    Accepted(b) =>
      /\ DOMAIN calls[b] = DOMAIN batch[b].files
      /\ DOMAIN task[b] = DOMAIN batch[b].files
      /\ \A i \in DOMAIN calls[b] :
           calls[b][i] = (IF task[b][i] = "queued" THEN 0 ELSE 1)
      /\ phase[b] = "done" => \A i \in DOMAIN calls[b] : calls[b][i] = 1

\* a batch of at least two files is done after one of its calls failed
C8_Witness ==
  \E b \in Requests :
    /\ phase[b] = "done" /\ Len(batch[b].files) >= 2
    /\ \E i \in DOMAIN task[b] : task[b][i] = "failed"
    /\ \A i \in DOMAIN calls[b] : calls[b][i] = 1

\* the record of uploadId u was stored by a request (which reached progressStore.set:
\* its directory was created) and is no longer in the ledger
Deleted(store, u) ==
  ~StoreHas(store, u) /\ \E b \in Requests : stored[b] /\ batch[b].uploadId = u

\* C9 as stated: once the record of an uploadId has been deleted, no step makes a
\* progress query for it find a record again.
C9_DeletedStaysDeleted ==
  [][\A u \in UploadIds : Deleted(ledger, u) => NotFound(ledger', u)]_vars

\* C9 as amended: once the record of an uploadId has been deleted, a progress query
\* for it returns not found until a later submit request carrying that uploadId passes
\* the checks; no task, completion handler or timer stores a record for it again.
C9_DeletedUntilResubmitted ==
  [][\A u \in UploadIds :
       Deleted(ledger, u) =>
         (NotFound(ledger', u) \/ \E b \in Requests : Initialises(b, u))]_vars

\* a batch finished its calls and ran its completion handler after its record had
\* been deleted, and the record is still absent
C9_Witness ==
  \E b \in Requests :
    /\ phase[b] = "done" /\ timer[b] = "none" /\ Len(batch[b].files) > 0
    /\ Deleted(ledger, batch[b].uploadId)
    /\ NotFound(ledger, batch[b].uploadId)

\* C10: the step in which the retention timer of a batch fires leaves a progress query
\* for its uploadId with not found, and the answer stays not found while no other
\* request carries that uploadId.
C10_TimerStep ==
  \A b \in Requests :
    (timer[b] = "scheduled" /\ timer'[b] = "fired") => NotFound(ledger', batch[b].uploadId)

C10_Retired ==
  \A b \in Requests :
    (timer[b] = "fired" /\ SoleUser(b)) => NotFound(ledger, batch[b].uploadId)

C10_NotFoundAfterRetention == [][C10_TimerStep]_vars /\ []C10_Retired

\* the timer of a batch with files has fired and its uploadId is not found
C10_Witness ==
  \E b \in Requests :
    /\ timer[b] = "fired" /\ phase[b] = "done" /\ Len(batch[b].files) > 0
    /\ NotFound(ledger, batch[b].uploadId)

\* C11: the step in which the detached phase of a batch fails outside the per-file
\* error boundary (a task throws at its start, also in the turn of the submit, or in
\* its finally block, or the completion handler throws, after a call that succeeded or
\* failed) leaves no record for its uploadId and sets no retention timer, so the
\* record is deleted and not marked complete; and while no other request carries that
\* uploadId every query for it answers not found, also while the other tasks of the
\* batch are running and finishing: a GET query for it that is answered from then on
\* is answered 404.
C11_FailStep ==
  \A b \in Requests :
    /\ (phase[b] # "errored" /\ phase'[b] = "errored") =>
         /\ NotFound(ledger', batch'[b].uploadId)
         /\ timer'[b] = "none"
    /\ (/\ phase[b] = "errored" /\ SoleUser(b)
        /\ resp' # resp /\ resp'.uploadId = batch[b].uploadId
        /\ resp'.status \in {200, 404}) => resp'.status = 404

C11_Errored ==
  \A b \in Requests :
    (phase[b] = "errored" /\ SoleUser(b)) =>
      NotFound(ledger, batch[b].uploadId) /\ timer[b] = "none"

C11_DetachedFailureDeletes == [][C11_FailStep]_vars /\ []C11_Errored

\* with one worker, the first task failed outside its try block and the second task
\* ran and finished afterwards; the uploadId is not found
C11_Witness ==
  \E b \in Requests :
    /\ phase[b] = "errored" /\ SoleUser(b) /\ concurrencyLimit(env) = 1
    /\ Len(batch[b].files) >= 2
    /\ task[b][1] = "threw" /\ task[b][2] \in {"ok", "failed"}
    /\ NotFound(ledger, batch[b].uploadId)
    /\ resp.status = 404 /\ resp.uploadId = batch[b].uploadId

\* C12: a submit request whose uploadId has a record in the ledger that is not yet
\* complete is rejected: it becomes no batch, the record stays as it is and no task is
\* started for it.
C12_ActiveUploadIdRejected ==
  [][\A b \in Requests : \A u \in UploadIds :
       (/\ phase[b] = "new" /\ phase'[b] # "new"
        /\ request'[b].method = "POST" /\ request'[b].uploadId = u
        /\ StoreHas(ledger, u) /\ ~ledger[u].isComplete) =>
         /\ phase'[b] = "rejected"
         /\ StoreHas(ledger', u) /\ ledger'[u] = ledger[u]
         /\ task'[b] = <<>>]_vars

\* C13: a POST submit is answered by the first check it fails: 400 for a missing
\* uploadId, also when the collectionName is missing too; else 400 for a missing
\* collectionName; else 409 for a collection directory that exists; a request that
\* passes the three checks is never answered 400 or 409, and when it fails afterwards
\* the answer it gets is 500; so is the answer of a request whose form cannot be
\* parsed, which reaches no check.
C13_Handled(b) == phase[b] = "new" /\ phase'[b] # "new" /\ request'[b].method = "POST"
C13_Unparsed(b) == phase'[b] \in {"failed", "hung"} /\ batch'[b] = NoBatch

C13_ChecksInOrder ==
  [][\A b \in Requests :
       C13_Handled(b) =>
         LET r == request'[b]
             answer == response'[b]
         IN IF C13_Unparsed(b)
              THEN /\ answer.code \in {0, 500}
                   /\ phase'[b] = "failed" => answer.code = 500
            ELSE IF r.uploadId = Missing
              THEN answer.code = 400 /\ answer.message = "Upload ID is required."
            ELSE IF r.collectionName = Missing
              THEN answer.code = 400 /\ answer.message = "Collection name is required."
            ELSE IF r.collectionName \in dirs
              THEN answer.code = 409 /\ answer.message = "Collection already exists."
            ELSE /\ answer.code \in {0, 200, 500}
                 /\ phase'[b] \in {"running", "done"} <=> answer.code = 200
                 /\ phase'[b] = "failed" => answer.code = 500]_vars

\* a request without uploadId and without collectionName was answered 400 for the
\* uploadId, after another request had failed to persist and was answered 500
C13_Witness ==
  \E a, b \in Requests :
    /\ a # b /\ phase[a] = "failed" /\ response[a].code = 500 /\ batch[a] # NoBatch
    /\ request[b].method = "POST"
    /\ request[b].uploadId = Missing /\ request[b].collectionName = Missing
    /\ response[b].code = 400 /\ response[b].message = "Upload ID is required."

\* C14: the step that rejects a submit for a missing uploadId, a missing collectionName
\* or an existing collection leaves the ledger as it was, so no record is created for
\* the uploadId supplied, creates no directory and writes no file, and starts no task
\* and no downstream call.
C14_RejectionChangesNothing ==
  [][\A b \in Requests :
       (phase[b] = "new" /\ phase'[b] = "rejected" /\ response'[b].code \in {400, 409}) =>
         /\ ledger' = ledger
         /\ StoreHas(ledger', request'[b].uploadId) => StoreHas(ledger, request'[b].uploadId)
         /\ dirs' = dirs /\ disk' = disk
         /\ stored' = stored /\ cleaned' = cleaned
         /\ task' = task /\ calls' = calls /\ timer' = timer
         /\ task'[b] = <<>> /\ calls'[b] = <<>>]_vars

\* a request with a fresh uploadId was rejected for an existing collection while the
\* batch that owns the collection has a call in flight; the uploadId has no record and
\* the directory holds the files of the owner and nothing else
C14_Witness ==
  \E a, b \in Requests :
    /\ a # b /\ phase[a] = "running" /\ Running(task[a]) # {}
    /\ phase[b] = "rejected" /\ response[b].code = 409
    /\ request[b].collectionName = batch[a].collectionName
    /\ request[b].uploadId # Missing /\ request[b].uploadId # batch[a].uploadId
    /\ ~StoreHas(ledger, request[b].uploadId)
    /\ task[b] = <<>> /\ calls[b] = <<>>
    /\ disk[batch[a].collectionName] = handleFiles(batch[a].files) \cup {MetadataFile}
    /\ DOMAIN disk = {batch[a].collectionName}

\* C15: of two POST submits with the same collectionName and different uploadIds at
\* most one is accepted (the part of the handler after the form is parsed has no await,
\* so two handlers interleave only as wholes); once both are handled one of them was
\* answered 409, and the uploadId of a request answered 409 has no record.
C15_SameCollection(a, b) ==
  /\ a # b
  /\ request[a].method = "POST" /\ request[b].method = "POST"
  /\ request[a].collectionName # Missing
  /\ request[a].collectionName = request[b].collectionName
  /\ request[a].uploadId # Missing /\ request[b].uploadId # Missing
  /\ request[a].uploadId # request[b].uploadId

C15_OneOwnerPerCollection ==
  \A a, b \in Requests :
    C15_SameCollection(a, b) =>
      /\ ~(Accepted(a) /\ Accepted(b))
      /\ response[a].code = 409 \/ response[b].code = 409
      /\ response[b].code = 409 =>
           /\ phase[b] = "rejected" /\ task[b] = <<>>
           /\ ~StoreHas(ledger, request[b].uploadId)

\* C15, as the code has it: of two such submits at most one is accepted, and the
\* uploadId of one answered 409 has no record; once both are handled one of them was
\* answered 409 unless one failed to persist: a request whose directory could not be
\* created leaves the collectionName free for the other; and every request handled
\* while the directory of its collection exists is answered 409.
C15_Failed(b) == phase[b] \in {"failed", "hung"}

C15_OneOwnerUnlessFailed ==
  /\ [][\A b \in Requests :
          (/\ phase[b] = "new" /\ phase'[b] # "new" /\ request'[b].method = "POST"
           /\ request'[b].uploadId # Missing /\ request'[b].collectionName \in dirs) =>
            response'[b].code = 409 /\ phase'[b] = "rejected"]_vars
  /\ [](\A a, b \in Requests :
          C15_SameCollection(a, b) =>
            /\ ~(Accepted(a) /\ Accepted(b))
            /\ \/ response[a].code = 409 \/ response[b].code = 409
               \/ C15_Failed(a) \/ C15_Failed(b)
            /\ (Accepted(a) /\ C15_Failed(b)) => batch[a].collectionName \in dirs
            /\ response[b].code = 409 =>
                 /\ phase[b] = "rejected" /\ task[b] = <<>>
                 /\ ~StoreHas(ledger, request[b].uploadId))

\* the directory of the first request could not be created and the request was
\* answered 500; the second, with the same collectionName and another uploadId, was
\* accepted and owns the directory: neither was answered 409
C15_Witness ==
  \E a, b \in Requests :
    /\ C15_SameCollection(a, b)
    /\ phase[a] = "failed" /\ response[a].code = 500
    /\ Accepted(b) /\ response[b].code = 200
    /\ batch[b].collectionName \in dirs

\* C16: an accepted submit has its success response, carrying the uploadId the client
\* supplied, from the step that accepts it: the response is there while calls of the
\* batch are in flight and tasks wait for a slot, whether or not a call ever returns.
C16_RespondsBeforeProcessing ==
  \A b \in Requests :
    Accepted(b) =>
      /\ response[b].code = 200
      /\ response[b].message = "Files uploaded and processing started."
      /\ response[b].uploadId = request[b].uploadId
      /\ response[b].uploadId # Missing

\* the response is sent, no call of the batch has returned, one is in flight and a
\* task waits for a slot
C16_Witness ==
  \E b \in Requests :
    /\ phase[b] = "running" /\ response[b].code = 200
    /\ response[b].uploadId = request[b].uploadId
    /\ Attempted(task[b]) = {} /\ Running(task[b]) # {} /\ Queued(task[b]) # {}

\* C17: a submit that fails to write a file or the metadata after it stored the record
\* is answered 500, and when it is answered the record of its uploadId is gone: while
\* no other request carries the uploadId a query for it answers not found.
C17_PersistFailureRemovesRecord ==
  \A b \in Requests :
    (phase[b] = "failed" /\ batch[b] # NoBatch) =>
      /\ response[b].code = 500
      /\ SoleUser(b) => NotFound(ledger, batch[b].uploadId)

\* C18: a record with totalFiles = 0 is never found with isComplete = false: every
\* query that finds the record of a submit with zero files reports isComplete = true.
C18_ZeroFilesCompleteAtOnce ==
  \A u \in UploadIds :
    (Found(ledger, u) /\ Answer(ledger, u).body.totalFiles = 0) =>
      Answer(ledger, u).body.isComplete

\* C19: a progress query changes nothing but its own response: every step that changes
\* the ledger is a step of a submit handler, a task or a timer and leaves the response
\* of the progress endpoint alone, and every step that answers a query leaves the
\* ledger as it was; and a query of any method and any uploadId can be answered in
\* every state, also while downstream calls are in flight.
C19_Step ==
  /\ ledger' # ledger =>
       /\ resp' = resp
       /\ phase' # phase \/ task' # task \/ timer' # timer
  /\ resp' # resp =>
       /\ ledger' = ledger
       /\ UNCHANGED <<env, client, cleaned, stored, dirs, disk, labels, request, phase, batch, response, task, calls, timer>>

C19_AnswersAtOnce == \A m \in Methods, q \in QueryValues : ENABLED Poll(m, q)

C19_QueryIsPureRead == [][C19_Step]_vars /\ []C19_AnswersAtOnce

\* a query was answered with the record of a batch that has a call in flight and a
\* task waiting, and the record is still the one the answer shows
C19_Witness ==
  \E b \in Requests :
    /\ phase[b] = "running" /\ Running(task[b]) # {} /\ Queued(task[b]) # {}
    /\ resp.status = 200 /\ resp.uploadId = batch[b].uploadId
    /\ StoreHas(ledger, resp.uploadId) /\ ledger[resp.uploadId] = resp.body

\* C20: a GET query with a string uploadId answers 200 with the stored record as it
\* is when the uploadId has a record, complete or not, and 404 when it has none; a
\* step that answers 200 shows the record stored at that moment, and a step that
\* answers 404 names an uploadId without record.
C20_Step ==
  resp' # resp =>
    /\ resp'.status = 200 =>
         StoreHas(ledger, resp'.uploadId) /\ resp'.body = ledger[resp'.uploadId]
    /\ resp'.status = 404 => ~StoreHas(ledger, resp'.uploadId)

C20_HitOrMiss ==
  \A u \in UploadIds :
    LET answer == handleProgress("GET", Query(u), ledger)
    IN IF u \in DOMAIN ledger
       THEN /\ answer.status = 200
            /\ answer.body.totalFiles = ledger[u].totalFiles
            /\ answer.body.processedFiles = ledger[u].processedFiles
            /\ answer.body.processingFiles = ledger[u].processingFiles
            /\ answer.body.isComplete = ledger[u].isComplete
       ELSE answer.status = 404

C20_RecordVerbatim == [][C20_Step]_vars /\ []C20_HitOrMiss

\* a query found the complete record of a batch of files that is done, timer pending
C20_Witness ==
  \E b \in Requests :
    /\ phase[b] = "done" /\ timer[b] = "scheduled" /\ Len(batch[b].files) > 0
    /\ resp.status = 200 /\ resp.uploadId = batch[b].uploadId
    /\ resp.body.isComplete /\ resp.body.processedFiles = Len(batch[b].files)
    /\ StoreHas(ledger, resp.uploadId) /\ ledger[resp.uploadId] = resp.body

\* C21: the progress endpoint answers a request of any method but GET with 405,
\* whatever its uploadId and whether or not that uploadId has a record: the answer is
\* the one the empty ledger gives and shows no record, and the only answers that come
\* from a GET are 200, 400 and 404.
C21_OnlyGet ==
  \A m \in Methods, q \in QueryValues :
    LET answer == handleProgress(m, q, ledger)
    IN /\ m # "GET" =>
            /\ answer.status = 405
            /\ answer = handleProgress(m, q, <<>>)
            /\ answer.body = InitialProgress(0)
       /\ m = "GET" => answer.status \in {200, 400, 404}

C21_Step == resp' # resp /\ resp'.status = 405 => ledger' = ledger

C21_OtherMethodsRejected == [][C21_Step]_vars /\ []C21_OnlyGet

\* a request that is no GET was answered 405 for the uploadId of a batch whose record
\* is in the ledger while a call of the batch is in flight
C21_Witness ==
  \E b \in Requests :
    /\ phase[b] = "running" /\ Running(task[b]) # {}
    /\ resp.status = 405 /\ resp.uploadId = batch[b].uploadId
    /\ StoreHas(ledger, resp.uploadId)

\* C22: a step of one request (its submit, the return of one of its calls with the
\* update, the completion handler, the deletion after a failure, the firing of its
\* timer) leaves the record of every uploadId other than its own as it was: present
\* with the same contents, or absent.
C22_StepOf(b) == phase'[b] # phase[b] \/ task'[b] # task[b] \/ timer'[b] # timer[b]

C22_Step ==
  \A b \in Requests : \A u \in UploadIds :
    (C22_StepOf(b) /\ batch'[b].uploadId # u) =>
      /\ StoreHas(ledger', u) <=> StoreHas(ledger, u)
      /\ StoreHas(ledger, u) => ledger'[u] = ledger[u]

C22_LedgerIsolation == [][C22_Step]_vars

\* the detached phase of one batch failed and its record is gone, while the record of
\* the other batch stands with a call ended and a call in flight
C22_Witness ==
  \E a, b \in Requests :
    /\ a # b /\ batch[a].uploadId # batch[b].uploadId
    /\ phase[a] = "errored" /\ ~StoreHas(ledger, batch[a].uploadId)
    /\ phase[b] = "running" /\ Running(task[b]) # {} /\ Attempted(task[b]) # {}
    /\ StoreHas(ledger, batch[b].uploadId)
    /\ ledger[batch[b].uploadId].processedFiles = Cardinality(Attempted(task[b]))

\* C23: the step in which a request is accepted sets totalFiles of its record to the
\* number of files submitted, two files with the same relative path counted twice; a
\* step that is not a submit with that uploadId leaves totalFiles of an existing record
\* as it was; and a finished batch whose uploadId no other request carries has, while
\* its record exists, processedFiles = totalFiles = the number of files submitted.
C23_Step ==
  \A u \in UploadIds :
    /\ \A b \in Requests :
         (Initialises(b, u) /\ Accepted(b)') =>
           /\ StoreHas(ledger', u)
           /\ ledger'[u].totalFiles = Len(batch'[b].files)
    /\ (/\ StoreHas(ledger, u) /\ StoreHas(ledger', u)
        /\ ~\E b \in Requests : Initialises(b, u)) =>
          ledger'[u].totalFiles = ledger[u].totalFiles

C23_Finished ==
  \A b \in Requests :
    (phase[b] = "done" /\ SoleUser(b) /\ StoreHas(ledger, batch[b].uploadId)) =>
      /\ ledger[batch[b].uploadId].totalFiles = Len(batch[b].files)
      /\ ledger[batch[b].uploadId].processedFiles = Len(batch[b].files)

C23_TotalFilesFixed == [][C23_Step]_vars /\ []C23_Finished

\* a batch of two files with the same relative path has finished, both calls made,
\* with totalFiles 2 and processedFiles 2
C23_Witness ==
  \E b \in Requests :
    /\ phase[b] = "done" /\ SoleUser(b) /\ StoreHas(ledger, batch[b].uploadId)
    /\ Len(batch[b].files) = 2 /\ batch[b].files[1] = batch[b].files[2]
    /\ \A i \in 1..2 : calls[b][i] = 1
    /\ ledger[batch[b].uploadId].totalFiles = 2
    /\ ledger[batch[b].uploadId].processedFiles = 2

\* C24: for an accepted batch whose uploadId no other request carries, no two tasks in
\* flight have the same relative path, and no relative path occurs twice in
\* processingFiles of its record.
C24_NoDuplicateInFlight ==
  \A b \in Requests :
    (Accepted(b) /\ SoleUser(b)) =>
      LET files == batch[b].files
          u == batch[b].uploadId
      IN /\ \A i, j \in Running(task[b]) : i # j => files[i] # files[j]
         /\ StoreHas(ledger, u) =>
              \A i, j \in 1..Len(ledger[u].processingFiles) :
                i # j => ledger[u].processingFiles[i] # ledger[u].processingFiles[j]

\* C25: for an accepted batch whose uploadId no other request carries, while its record
\* exists every relative path is listed in processingFiles as many times as tasks with
\* that path are in flight: listed from onStart until the onFinish of the same call.
C25_ListsExactlyInFlight ==
  \A b \in Requests :
    (Accepted(b) /\ SoleUser(b) /\ StoreHas(ledger, batch[b].uploadId)) =>
      LET files == batch[b].files
          listed == ledger[batch[b].uploadId].processingFiles
      IN \A p \in RelativePaths :
           Cardinality({i \in 1..Len(listed) : listed[i] = p})
             = Cardinality({i \in Running(task[b]) : files[i] = p})

\* C26: for an accepted batch whose uploadId no other request carries, while its record
\* exists processedFiles is the number of its files whose downstream call has ended,
\* whatever the order in which the calls return and the completion handler runs; and a
\* step in which one call of such a batch ends adds exactly one to processedFiles.
C26_Counted ==
  \A b \in Requests :
    (Accepted(b) /\ SoleUser(b) /\ StoreHas(ledger, batch[b].uploadId)) =>
      ledger[batch[b].uploadId].processedFiles = Cardinality(Attempted(task[b]))

C26_Step ==
  \A b \in Requests :
    (/\ Accepted(b) /\ SoleUser(b) /\ SoleUser(b)'
     /\ StoreHas(ledger, batch[b].uploadId) /\ StoreHas(ledger', batch[b].uploadId)
     /\ Cardinality(Attempted(task'[b])) = Cardinality(Attempted(task[b])) + 1) =>
       ledger'[batch[b].uploadId].processedFiles
         = ledger[batch[b].uploadId].processedFiles + 1

C26_NoLostUpdate == [][C26_Step]_vars /\ []C26_Counted

\* two calls of one batch were in flight together, both have ended, the completion
\* handler has run, and the record counts both
C26_Witness ==
  \E b \in Requests :
    /\ phase[b] = "done" /\ SoleUser(b) /\ StoreHas(ledger, batch[b].uploadId)
    /\ concurrencyLimit(env) = 2
    /\ Cardinality(Attempted(task[b])) = 2
    /\ ledger[batch[b].uploadId].processedFiles = 2
    /\ ledger[batch[b].uploadId].isComplete

\* C27: when every downstream call returns, every record in the ledger is eventually
\* deleted: an uploadId that has a record leads to a state in which it has none.
C27_EventuallyDeleted ==
  EveryCallReturns =>
    \A u \in UploadIds : StoreHas(ledger, u) ~> ~StoreHas(ledger, u)

\* C28: once a downstream call of a batch has been issued, every file of the batch is
\* in its collection directory (the files are copied in the submit step, before the
\* first task starts, and nothing removes them); a request whose copy or metadata
\* write failed has issued no call.
C28_CopiedBeforeCalls ==
  \A b \in Requests :
    /\ (\E i \in DOMAIN calls[b] : calls[b][i] > 0) =>
         /\ batch[b].collectionName \in DOMAIN disk
         /\ \A i \in 1..Len(batch[b].files) :
              Destination(batch[b].files[i]) \in disk[batch[b].collectionName]
    /\ phase[b] \in {"failed", "hung"} => \A i \in DOMAIN calls[b] : calls[b][i] = 0

\* the first call of a batch of two different files is in flight, the second file
\* waits for a slot, and both files are in the collection directory
C28_Witness ==
  \E b \in Requests :
    /\ phase[b] = "running" /\ Len(batch[b].files) = 2
    /\ batch[b].files[1] # batch[b].files[2]
    /\ task[b] = <<"running", "queued">>
    /\ calls[b] = <<1, 0>>
    /\ {Destination(batch[b].files[i]) : i \in 1..2} \subseteq disk[batch[b].collectionName]

\* C29: the concurrency limit is a positive integer: it is 1 when LANGFLOW_WORKERS is
\* unset or empty, when it does not begin (after white space and a sign) with a digit, and
\* when it is a numeral of value 0 or a negative numeral; it is the value of the
\* numeral when LANGFLOW_WORKERS is a decimal numeral greater than 0; and it is the
\* limit the dispatcher runs with: a batch has at most that many calls in flight, and
\* exactly that many while a task waits.
RECURSIVE C29_Decimal(_)
C29_Decimal(s) ==
  IF s = <<>> THEN 0
  ELSE 10 * C29_Decimal(SubSeq(s, 1, Len(s) - 1)) + DigitValue(s[Len(s)])

C29_Blank(s, n) == \A i \in 1..n : s[i] \in StrWhiteSpaceChars

\* s reads as a numeral: after white space and at most one sign, the digits s[k..j], which
\* no further digit follows; neg tells whether the sign is a minus
C29_Parses(s, k, j, neg) ==
  /\ k <= j /\ \A i \in k..j : s[i] \in DigitChars
  /\ j = Len(s) \/ s[j + 1] \notin DigitChars
  /\ \/ ~neg /\ C29_Blank(s, k - 1)
     \/ k > 1 /\ s[k - 1] \in {"-", "+"} /\ neg = (s[k - 1] = "-") /\ C29_Blank(s, k - 2)

\* s does not read as a numeral
C29_NonNumeric(s) == ~\E k, j \in 1..Len(s), neg \in BOOLEAN : C29_Parses(s, k, j, neg)

C29_LimitFromEnv ==
  LET limit == concurrencyLimit(env)
      s == env.chars
  IN /\ limit \in Nat /\ limit >= 1
     /\ (~env.isSet \/ s = <<>>) => limit = 1
     /\ (env.isSet /\ C29_NonNumeric(s)) => limit = 1
     /\ env.isSet =>
          \A k, j \in 1..Len(s), neg \in BOOLEAN :
            C29_Parses(s, k, j, neg) =>
              LET value == C29_Decimal(SubSeq(s, k, j))
              IN limit = (IF neg \/ value = 0 THEN 1 ELSE value)
     /\ \A b \in Requests :
          Accepted(b) =>
            /\ Cardinality(Running(task[b])) <= limit
            /\ Queued(task[b]) # {} => Cardinality(Running(task[b])) = limit

\* LANGFLOW_WORKERS is a negative numeral and a batch of two files runs with one call
\* in flight and one file waiting
C29_Witness ==
  /\ env.isSet /\ env.chars = <<"-", "2">>
  /\ \E b \in Requests : phase[b] = "running" /\ task[b] = <<"running", "queued">>

\* C30: every downstream call issued for a batch carries the metadata list whose first
\* element is {collection: collectionName} and whose further elements are the labels
\* of the batch, one {key: value} each, in their submitted order.
C30_MetadataList ==
  \A b \in Requests :
    (\E i \in DOMAIN calls[b] : calls[b][i] > 0) =>
      LET sent == payloadMetadata(b)
          items == labels[b].items
      IN /\ Len(sent) = 1 + Len(items)
         /\ sent[1] = Object("collection", batch[b].collectionName)
         /\ \A k \in 1..Len(items) : sent[k + 1] = Object(items[k].key, items[k].value)

\* C32: every stored record has processedFiles + length(processingFiles) <= totalFiles,
\* so that totalFiles - processedFiles - length(processingFiles) is not negative.
C32_RemainingNotNegative ==
  \A u \in DOMAIN ledger :
    ledger[u].processedFiles + Len(ledger[u].processingFiles) <= ledger[u].totalFiles

\* C33: updateProgress for an uploadId without a record returns the ledger as it is,
\* for the update of onStart and for that of onFinish; and a step in which tasks of a
\* batch start or finish while its uploadId has no record leaves the ledger unchanged,
\* so that no record comes back.
C33_AbsentIsNoop ==
  \A u \in UploadIds \ DOMAIN ledger :
    \A p \in RelativePaths :
      /\ updateProgress(ledger, u, onStartUpdate(p)) = ledger
      /\ updateProgress(ledger, u, onFinishUpdate(p)) = ledger

C33_Step ==
  \A b \in Requests :
    (/\ phase[b] # "new" /\ task'[b] # task[b]
     /\ ~StoreHas(ledger, batch[b].uploadId)) => ledger' = ledger

C33_NoResurrection == [][C33_Step]_vars /\ []C33_AbsentIsNoop

\* with one worker, the first task of a batch made the detached phase fail, the record
\* was deleted, and the second task has since run its onFinish: the record is absent
C33_Witness ==
  \E b \in Requests :
    /\ concurrencyLimit(env) = 1
    /\ phase[b] = "errored" /\ task[b] = <<"threw", "ok">>
    /\ ~StoreHas(ledger, batch[b].uploadId)

\* C34: the firing of the retention timer of a batch does not delete the record of a
\* later batch that carries the same uploadId and is still running: the record that the
\* later batch initialised is still stored after the step.
C34_TimerStep ==
  \A a, b \in Requests :
    (/\ timer[b] = "scheduled" /\ timer'[b] = "fired"
     /\ a > b /\ phase[a] = "running" /\ batch[a].uploadId = batch[b].uploadId
     /\ StoreHas(ledger, batch[a].uploadId)) => StoreHas(ledger', batch[a].uploadId)

C34_DeletedByOwnBatchOnly == [][C34_TimerStep]_vars

\* C35: a stored record with processedFiles = totalFiles > 0 has isComplete = true, so
\* no progress query finds such a record incomplete; and in the step in which the last
\* call of a batch with files ends, for an uploadId no other request carries, the
\* record left by the step is the one the onFinish update of that call produced,
\* already complete: the completion handler run in the same step changed no field.
C35_AllProcessedIsComplete ==
  \A u \in DOMAIN ledger :
    (ledger[u].processedFiles = ledger[u].totalFiles /\ ledger[u].totalFiles > 0) =>
      /\ ledger[u].isComplete
      /\ Answer(ledger, u).body.isComplete

C35_Step ==
  \A b \in Requests :
    (/\ phase[b] = "running" /\ phase'[b] = "done" /\ SoleUser(b)
     /\ StoreHas(ledger, batch[b].uploadId)) =>
       \E i \in Running(task[b]) :
         LET u == batch[b].uploadId
             finished == updateProgress(ledger, u, onFinishUpdate(batch[b].files[i]))
         IN /\ task'[b][i] \in Outcomes
            /\ finished[u].processedFiles = finished[u].totalFiles
            /\ finished[u].isComplete
            /\ StoreHas(ledger', u) /\ ledger'[u] = finished[u]

C35_CompleteWithLastFinish == [][C35_Step]_vars /\ []C35_AllProcessedIsComplete

\* a batch of one file has finished: its record has processedFiles = totalFiles = 1
\* and isComplete = true, and its retention timer is set
C35_Witness ==
  \E b \in Requests :
    /\ phase[b] = "done" /\ timer[b] = "scheduled" /\ SoleUser(b)
    /\ Len(batch[b].files) = 1 /\ task[b] \in {<<"ok">>, <<"failed">>}
    /\ StoreHas(ledger, batch[b].uploadId)
    /\ ledger[batch[b].uploadId] =
         [totalFiles |-> 1, processedFiles |-> 1, processingFiles |-> <<>>, isComplete |-> TRUE]

\* C31: the response that stops the polling: a 2xx response with isComplete = true, a
\* 404, or any other failure of a query. The step in which such an outcome reaches the
\* page clears the interval and leaves the submitting state; a 2xx response with
\* isComplete = false leaves the interval set; once the interval is cleared no step
\* sends a query or sets the interval or the submitting state again. And once the
\* uploadId the page polls with has a complete record or no record, the page stops.
C31_Stopping(answer) == answer.status # 200 \/ answer.body.isComplete

C31_Step ==
  /\ \A k \in 1..Len(client.inflight) :
       (client.state = "polling" /\ client.inflight[k].status # 0
        /\ client'.inflight = RemoveAt(client.inflight, k)) =>
         IF C31_Stopping(client.inflight[k])
         THEN client'.state = "stopped" /\ ~client'.isSubmitting
         ELSE client'.state = "polling" /\ client'.isSubmitting
  /\ client.state = "stopped" =>
       /\ client'.state = "stopped" /\ ~client'.isSubmitting
       /\ Len(client'.inflight) <= Len(client.inflight)

C31_Terminal ==
  ~StoreHas(ledger, client.uploadId) \/ ledger[client.uploadId].isComplete

C31_PollingStops ==
  /\ [][C31_Step]_vars
  /\ (client.state = "polling" /\ C31_Terminal) ~> (client.state = "stopped")

\* the page stopped on a 404, after the record of its finished batch was deleted by
\* the retention timer, with the last progress it showed still incomplete
C31_Witness ==
  /\ client.state = "stopped" /\ ~client.isSubmitting
  /\ timer[Min(Requests)] = "fired"
  /\ ~StoreHas(ledger, client.uploadId)
  /\ ~client.progressData.isComplete
  /\ client.inflight = <<>>
====
